---- MODULE Spec2Model ----
(***************************************************************************)
(* NAT pinger (nat/traversal/pinger.go): the provider-side dispatch loop   *)
(* Start, the consumer-side entry PingProvider, the TTL-ramping sender     *)
(* ping and the receive/timeout race pingReceiver, with the two unbuffered *)
(* channels pingTarget and pingCancelled that connect them.                *)
(*                                                                         *)
(* An attempt is one socket with its sender and its receive race.  The     *)
(* attempt of a provider-side request carries the request's number; the    *)
(* attempt of a PingProvider call carries the call's number.               *)
(*                                                                         *)
(* Also the wireguard Connection (Start, Wait, Stop) with its wait group   *)
(* and its state channel.                                                  *)
(***************************************************************************)
EXTENDS Integers, Sequences, FiniteSets

\* Bounds of the model.
NumRequests == 2    \* PingTarget calls (one request each)
NumConsumers == 1   \* PingProvider calls
MaxPings == 6       \* TTL values remembered per sender (the sender itself is not bounded)
MaxCalls == 3       \* Start and Stop calls on the wireguard Connection

\* Program constants.
ttlCeiling == 128   \* pinger.go:196
ttlRamp == 4        \* pinger.go:195

Requests == 1..NumRequests
Consumers == (NumRequests + 1)..(NumRequests + NumConsumers)
Attempts == Requests \cup Consumers
NoRequest == 0

\* What ConfigParser.Parse may return: any port and service type, with or
\* without an error (the parser is an interface; 0 is "no port supplied").
Ports == {0, 51000}
ServiceTypes == {"wireguard"}
Undecoded == [parsed |-> FALSE, err |-> FALSE, port |-> 0, serviceType |-> ""]

VARIABLES
    event,       \* what natEventWaiter.WaitForEvent reported: "none" before the call
    lpc,         \* position of Start
    cur,         \* pingParams of the running iteration of Start (NoRequest outside one)
    caller,      \* per request: position of its PingTarget call
    dequeued,    \* per request: how often Start received it from pingTarget
    decoded,     \* per request: what configParser.Parse returned
    avail,       \* per request: what natProxy.isAvailable returned ("unasked" before)
    outcome,     \* per request: how its iteration of Start ended ("none" before)
    cpc,         \* per PingProvider call: its position
    cret,        \* per PingProvider call: its return value ("none" before)
    sock,        \* per attempt: conn, "none" | "open" | "closed"
    opens,       \* per attempt: sockets opened by getConnection
    closes,      \* per attempt: conn.Close calls
    handOffs,    \* per attempt: natProxy.handOff calls launched
    handOffType, \* per attempt: service type given to handOff
    spc,         \* per attempt: position of its sender (ping)
    n,           \* per attempt: the sender's n
    ttls,        \* per attempt: the first MaxPings values its running sender gave to SetTTL
    lastTTL,     \* per attempt: the last value its running sender gave to SetTTL (0: none)
    gotCancel,   \* per attempt: the attempt whose receiver cancelled this sender (0: none)
    rpc,         \* per attempt: position of its pingReceiver
    expired,     \* per attempt: the timeout channel of pingReceiver has fired
    cancelSent,  \* per attempt: completed sends on pingCancelled by its receiver
    strayWrite,  \* per attempt: the sender wrote after handOff of the socket was launched
    connection,         \* Connection: the counter of the wait group c.connection
    stateChannel,       \* Connection: c.stateChannel, "open" | "closed"
    lastState,          \* Connection: the last state sent on c.stateChannel ("none" before)
    connectionEndpoint, \* Connection: c.connectionEndpoint, "nil" | "set"
    kpc,                \* Connection: position of the running Start or Stop call ("idle" between calls)
    calls,              \* Connection: Start and Stop calls made
    wpc,                \* Connection: position of the Wait call
    running,            \* Connection: Connecting was sent and no NotConnected since
    waitEarly,          \* Connection: Wait returned while running
    panicked            \* Connection: the runtime panic that ended the process ("none" before)

loopVars == <<event, lpc, cur, caller, dequeued, decoded, avail, outcome>>
consumerVars == <<cpc, cret>>
sockVars == <<sock, opens, closes, handOffs, handOffType>>
senderVars == <<spc, n, ttls, lastTTL, gotCancel, strayWrite>>
receiverVars == <<rpc, expired, cancelSent>>
connVars == <<connection, stateChannel, lastState, connectionEndpoint, kpc, calls,
              wpc, running, waitEarly, panicked>>
pingerVars == <<loopVars, consumerVars, sockVars, senderVars, receiverVars>>
vars == <<pingerVars, connVars>>

Init ==
    /\ event = "none"
    /\ lpc = "WaitForEvent"
    /\ cur = NoRequest
    /\ caller = [r \in Requests |-> "idle"]
    /\ dequeued = [r \in Requests |-> 0]
    /\ decoded = [r \in Requests |-> Undecoded]
    /\ avail = [r \in Requests |-> "unasked"]
    /\ outcome = [r \in Requests |-> "none"]
    /\ cpc = [c \in Consumers |-> "idle"]
    /\ cret = [c \in Consumers |-> "none"]
    /\ sock = [a \in Attempts |-> "none"]
    /\ opens = [a \in Attempts |-> 0]
    /\ closes = [a \in Attempts |-> 0]
    /\ handOffs = [a \in Attempts |-> 0]
    /\ handOffType = [a \in Attempts |-> ""]
    /\ spc = [a \in Attempts |-> "none"]
    /\ n = [a \in Attempts |-> 0]
    /\ ttls = [a \in Attempts |-> <<>>]
    /\ lastTTL = [a \in Attempts |-> 0]
    /\ gotCancel = [a \in Attempts |-> 0]
    /\ rpc = [a \in Attempts |-> "none"]
    /\ expired = [a \in Attempts |-> FALSE]
    /\ cancelSent = [a \in Attempts |-> 0]
    /\ strayWrite = [a \in Attempts |-> FALSE]
    /\ connection = 0
    /\ stateChannel = "open"
    /\ lastState = "none"
    /\ connectionEndpoint = "nil"
    /\ kpc = "idle"
    /\ calls = 0
    /\ wpc = "idle"
    /\ running = FALSE
    /\ waitEarly = FALSE
    /\ panicked = "none"

----------------------------------------------------------------------------
(* Start: the short-circuit and the dispatch loop.                          *)

\* Mutant of WaitForEvent: the type of the event is not looked at.
WaitForEventIgnored ==
    /\ lpc = "WaitForEvent"
    /\ \E e \in {"success", "failure"} : event' = e
    /\ lpc' = "select"
    /\ UNCHANGED <<cur, caller, dequeued, decoded, avail, outcome>>
    /\ UNCHANGED <<consumerVars, sockVars, senderVars, receiverVars>>
    /\ UNCHANGED connVars

\* p.natEventWaiter.WaitForEvent().Type == SuccessEventType: return.
WaitForEvent ==
    /\ lpc = "WaitForEvent"
    /\ \E e \in {"success", "failure"} :
          /\ event' = e
          /\ lpc' = IF e = "success" THEN "returned" ELSE "select"
    /\ UNCHANGED <<cur, caller, dequeued, decoded, avail, outcome>>
    /\ UNCHANGED <<consumerVars, sockVars, senderVars, receiverVars>>
    /\ UNCHANGED connVars

\* Mutant of PingTarget: the send completes at once, as on a channel with a
\* buffer.
PingTargetBuffered(r) ==
    /\ caller[r] = "idle"
    /\ caller' = [caller EXCEPT ![r] = "returned"]
    /\ UNCHANGED <<event, lpc, cur, dequeued, decoded, avail, outcome>>
    /\ UNCHANGED <<consumerVars, sockVars, senderVars, receiverVars>>
    /\ UNCHANGED connVars

\* PingTarget: p.pingTarget <- target. The channel is unbuffered, so the
\* caller stays at the send until Start receives.
PingTarget(r) ==
    /\ caller[r] = "idle"
    /\ caller' = [caller EXCEPT ![r] = "sending"]
    /\ UNCHANGED <<event, lpc, cur, dequeued, decoded, avail, outcome>>
    /\ UNCHANGED <<consumerVars, sockVars, senderVars, receiverVars>>
    /\ UNCHANGED connVars

\* case pingParams := <-p.pingTarget: the rendezvous of Start with one caller.
Dequeue(r) ==
    /\ lpc = "select"
    /\ caller[r] = "sending"
    /\ caller' = [caller EXCEPT ![r] = "returned"]
    /\ dequeued' = [dequeued EXCEPT ![r] = @ + 1]
    /\ cur' = r
    /\ lpc' = "Parse"
    /\ UNCHANGED <<event, decoded, avail, outcome>>
    /\ UNCHANGED <<consumerVars, sockVars, senderVars, receiverVars>>
    /\ UNCHANGED connVars

\* The end of an iteration of the for loop: back to the select.
EndIteration(how) ==
    /\ outcome' = [outcome EXCEPT ![cur] = how]
    /\ cur' = NoRequest
    /\ lpc' = "select"

\* Mutant of Parse: a request that does not decode is dropped (the continue
\* the error branch lacks).
ParseDropsOnError ==
    /\ lpc = "Parse"
    /\ \E e \in BOOLEAN, p \in Ports, s \in ServiceTypes :
          /\ decoded' = [decoded EXCEPT ![cur] =
                            [parsed |-> TRUE, err |-> e, port |-> p, serviceType |-> s]]
          /\ IF e
             THEN EndIteration("undecodable")
             ELSE /\ lpc' = "isAvailable"
                  /\ UNCHANGED <<cur, outcome>>
    /\ UNCHANGED <<event, caller, dequeued, avail>>
    /\ UNCHANGED <<consumerVars, sockVars, senderVars, receiverVars>>
    /\ UNCHANGED connVars

\* IP, port, serviceType, err := p.configParser.Parse(...); an error is only logged.
Parse ==
    /\ lpc = "Parse"
    /\ \E e \in BOOLEAN, p \in Ports, s \in ServiceTypes :
          decoded' = [decoded EXCEPT ![cur] =
                         [parsed |-> TRUE, err |-> e, port |-> p, serviceType |-> s]]
    /\ lpc' = "isAvailable"
    /\ UNCHANGED <<event, cur, caller, dequeued, avail, outcome>>
    /\ UNCHANGED <<consumerVars, sockVars, senderVars, receiverVars>>
    /\ UNCHANGED connVars

\* if !p.natProxy.isAvailable(serviceType) { continue }
IsAvailable ==
    /\ lpc = "isAvailable"
    /\ \E a \in BOOLEAN :
          /\ avail' = [avail EXCEPT ![cur] = IF a THEN "yes" ELSE "no"]
          /\ IF a
             THEN /\ lpc' = "portCheck"
                  /\ UNCHANGED <<cur, outcome>>
             ELSE EndIteration("unavailable")
    /\ UNCHANGED <<event, caller, dequeued, decoded>>
    /\ UNCHANGED <<consumerVars, sockVars, senderVars, receiverVars>>
    /\ UNCHANGED connVars

\* Mutant of PortCheck: the test of the port is missing.
PortCheckMissing ==
    /\ lpc = "portCheck"
    /\ lpc' = "getConnection"
    /\ UNCHANGED <<event, cur, caller, dequeued, decoded, avail, outcome>>
    /\ UNCHANGED <<consumerVars, sockVars, senderVars, receiverVars>>
    /\ UNCHANGED connVars

\* if port == 0 { continue }
PortCheck ==
    /\ lpc = "portCheck"
    /\ IF decoded[cur].port = 0
       THEN EndIteration("noPort")
       ELSE /\ lpc' = "getConnection"
            /\ UNCHANGED <<cur, outcome>>
    /\ UNCHANGED <<event, caller, dequeued, decoded, avail>>
    /\ UNCHANGED <<consumerVars, sockVars, senderVars, receiverVars>>
    /\ UNCHANGED connVars

\* getConnection: ResolveUDPAddr and DialUDP; either may fail, then no socket.
getConnection(a, ok) ==
    IF ok
    THEN /\ sock' = [sock EXCEPT ![a] = "open"]
         /\ opens' = [opens EXCEPT ![a] = @ + 1]
    ELSE UNCHANGED <<sock, opens>>

\* conn, err := p.getConnection(IP, port, pingParams.Port); on error continue.
LoopGetConnection ==
    /\ lpc = "getConnection"
    /\ \E ok \in BOOLEAN :
          /\ getConnection(cur, ok)
          /\ IF ok
             THEN /\ lpc' = "goPing"
                  /\ UNCHANGED <<cur, outcome>>
             ELSE EndIteration("connError")
    /\ UNCHANGED <<event, caller, dequeued, decoded, avail>>
    /\ UNCHANGED <<closes, handOffs, handOffType>>
    /\ UNCHANGED <<consumerVars, senderVars, receiverVars>>
    /\ UNCHANGED connVars

\* go func() { err := p.ping(conn) ... }(): the sender starts with n := 1.
goPing(a) ==
    /\ spc' = [spc EXCEPT ![a] = "select"]
    /\ n' = [n EXCEPT ![a] = 1]
    /\ UNCHANGED <<ttls, lastTTL, gotCancel, strayWrite>>

LoopGoPing ==
    /\ lpc = "goPing"
    /\ goPing(cur)
    /\ lpc' = "pingReceiver"
    /\ UNCHANGED <<event, cur, caller, dequeued, decoded, avail, outcome>>
    /\ UNCHANGED <<consumerVars, sockVars, receiverVars>>
    /\ UNCHANGED connVars

\* Entry of pingReceiver: timeout := time.After(pingTimeout * time.Millisecond).
enterReceiver(a) ==
    /\ rpc[a] = "none"
    /\ rpc' = [rpc EXCEPT ![a] = "check"]
    /\ UNCHANGED <<expired, cancelSent>>

\* Mutant of LoopPingReceiver: the receive race is started without waiting
\* for it (as go p.pingReceiver(conn) would), and the loop goes on.
LoopPingReceiverDetached ==
    /\ lpc = "pingReceiver"
    /\ enterReceiver(cur)
    /\ lpc' = "select"
    /\ cur' = NoRequest
    /\ UNCHANGED <<event, caller, dequeued, decoded, avail, outcome>>
    /\ UNCHANGED <<consumerVars, sockVars, senderVars>>
    /\ UNCHANGED connVars

\* err = p.pingReceiver(conn): the call.
LoopPingReceiver ==
    /\ lpc = "pingReceiver"
    /\ enterReceiver(cur)
    /\ UNCHANGED <<loopVars, consumerVars, sockVars, senderVars>>
    /\ UNCHANGED connVars

\* Mutant of LoopReceiverReturned: the loop goes on as soon as the datagram
\* is read, before pingReceiver has sent the cancellation and returned.
LoopReceiverReturnedEarly ==
    /\ lpc = "pingReceiver"
    /\ rpc[cur] \in {"grace", "cancelNil", "retNil", "retTimeout"}
    /\ IF rpc[cur] = "retTimeout"
       THEN EndIteration("timeout")
       ELSE /\ lpc' = "handOff"
            /\ UNCHANGED <<cur, outcome>>
    /\ UNCHANGED <<event, caller, dequeued, decoded, avail>>
    /\ UNCHANGED <<consumerVars, sockVars, senderVars, receiverVars>>
    /\ UNCHANGED connVars

\* The return of pingReceiver in Start: an error is logged and the loop
\* continues (the socket is left as it is); nil leads to the handOff.
LoopReceiverReturned ==
    /\ lpc = "pingReceiver"
    /\ rpc[cur] \in {"retNil", "retTimeout"}
    /\ IF rpc[cur] = "retTimeout"
       THEN EndIteration("timeout")
       ELSE /\ lpc' = "handOff"
            /\ UNCHANGED <<cur, outcome>>
    /\ UNCHANGED <<event, caller, dequeued, decoded, avail>>
    /\ UNCHANGED <<consumerVars, sockVars, senderVars, receiverVars>>
    /\ UNCHANGED connVars

\* go p.natProxy.handOff(serviceType, conn)
LoopHandOff ==
    /\ lpc = "handOff"
    /\ handOffs' = [handOffs EXCEPT ![cur] = @ + 1]
    /\ handOffType' = [handOffType EXCEPT ![cur] = decoded[cur].serviceType]
    /\ EndIteration("handedOff")
    /\ UNCHANGED <<event, caller, dequeued, decoded, avail>>
    /\ UNCHANGED <<sock, opens, closes>>
    /\ UNCHANGED <<consumerVars, senderVars, receiverVars>>
    /\ UNCHANGED connVars

LoopStep ==
    \/ WaitForEvent
    \/ Parse
    \/ IsAvailable
    \/ PortCheck
    \/ LoopGetConnection
    \/ LoopGoPing
    \/ LoopPingReceiver
    \/ LoopReceiverReturned
    \/ LoopHandOff

----------------------------------------------------------------------------
(* ping: the sender of one attempt.                                         *)

\* ping returns (nil after the cancellation, the error after a failed call):
\* its n and the record of its SetTTL calls end with it.
senderExit(a, how) ==
    /\ spc' = [spc EXCEPT ![a] = how]
    /\ n' = [n EXCEPT ![a] = 0]
    /\ ttls' = [ttls EXCEPT ![a] = <<>>]
    /\ lastTTL' = [lastTTL EXCEPT ![a] = 0]

\* The record of the values given to SetTTL keeps the first MaxPings of them.
remember(seq, v) == IF Len(seq) < MaxPings THEN Append(seq, v) ELSE seq

\* case <-time.After(pingInterval * time.Millisecond)
SenderTick(a) ==
    /\ spc[a] = "select"
    /\ spc' = [spc EXCEPT ![a] = "SetTTL"]
    /\ UNCHANGED <<n, ttls, lastTTL, gotCancel, strayWrite>>
    /\ UNCHANGED <<loopVars, consumerVars, sockVars, receiverVars>>
    /\ UNCHANGED connVars

\* Mutant of clampTTL: the ramp ends one step early (n >= 4).
clampTTLEarly(k) == IF k >= ttlRamp THEN ttlCeiling ELSE k

\* if n > 4 { n = 128 }
clampTTL(k) == IF k > ttlRamp THEN ttlCeiling ELSE k

\* err := ipv4.NewConn(conn).SetTTL(n); on error return; n++.
\* On a closed socket the call fails.
SenderSetTTL(a) ==
    /\ spc[a] = "SetTTL"
    /\ LET v == clampTTL(n[a]) IN
          \E ok \in (IF sock[a] = "open" THEN BOOLEAN ELSE {FALSE}) :
                IF ok
                THEN /\ lastTTL' = [lastTTL EXCEPT ![a] = v]
                     /\ ttls' = [ttls EXCEPT ![a] = remember(@, v)]
                     /\ n' = [n EXCEPT ![a] = v + 1]
                     /\ spc' = [spc EXCEPT ![a] = "Write"]
                ELSE senderExit(a, "failed")
    /\ UNCHANGED <<gotCancel, strayWrite>>
    /\ UNCHANGED <<loopVars, consumerVars, sockVars, receiverVars>>
    /\ UNCHANGED connVars

\* _, err = conn.Write(...); on error return. On a closed socket the call fails.
SenderWrite(a) ==
    /\ spc[a] = "Write"
    /\ \E ok \in (IF sock[a] = "open" THEN BOOLEAN ELSE {FALSE}) :
          IF ok
          THEN /\ spc' = [spc EXCEPT ![a] = "select"]
               /\ strayWrite' = [strayWrite EXCEPT ![a] = @ \/ handOffs[a] > 0]
               /\ UNCHANGED <<n, ttls, lastTTL>>
          ELSE /\ senderExit(a, "failed")
               /\ UNCHANGED strayWrite
    /\ UNCHANGED gotCancel
    /\ UNCHANGED <<loopVars, consumerVars, sockVars, receiverVars>>
    /\ UNCHANGED connVars

SenderStep(a) == SenderTick(a) \/ SenderSetTTL(a) \/ SenderWrite(a)

----------------------------------------------------------------------------
(* pingReceiver: the receive/timeout race of one attempt.                   *)

\* Read has returned a datagram to the receiver of attempt a.
gotData(a) == rpc[a] \in {"grace", "cancelNil", "retNil"}

InReceiveLoop(a) == rpc[a] \in {"check", "Read", "sleep"}

\* The channel of time.After(pingTimeout) becomes ready. Its state matters
\* only while the for loop of pingReceiver runs.
Timeout(a) ==
    /\ InReceiveLoop(a)
    /\ ~expired[a]
    /\ expired' = [expired EXCEPT ![a] = TRUE]
    /\ UNCHANGED <<rpc, cancelSent>>
    /\ UNCHANGED <<loopVars, consumerVars, sockVars, senderVars>>
    /\ UNCHANGED connVars

\* select { case <-timeout: ...; default: }: the default is taken only
\* while the timeout channel is not ready.
ReceiverCheck(a) ==
    /\ rpc[a] = "check"
    /\ rpc' = [rpc EXCEPT ![a] = IF expired[a] THEN "cancelTimeout" ELSE "Read"]
    /\ UNCHANGED <<expired, cancelSent>>
    /\ UNCHANGED <<loopVars, consumerVars, sockVars, senderVars>>
    /\ UNCHANGED connVars

\* n, err := conn.Read(buf[0:]) returns a datagram. No read deadline is set
\* on the socket: the call returns when the peer's datagram arrives.
ReadData(a) ==
    /\ rpc[a] = "Read"
    /\ rpc' = [rpc EXCEPT ![a] = "grace"]
    /\ UNCHANGED <<expired, cancelSent>>
    /\ UNCHANGED <<loopVars, consumerVars, sockVars, senderVars>>
    /\ UNCHANGED connVars

\* conn.Read returns an error: logged, then time.Sleep(pingInterval).
ReadError(a) ==
    /\ rpc[a] = "Read"
    /\ rpc' = [rpc EXCEPT ![a] = "sleep"]
    /\ UNCHANGED <<expired, cancelSent>>
    /\ UNCHANGED <<loopVars, consumerVars, sockVars, senderVars>>
    /\ UNCHANGED connVars

\* The sleep after a read error ends: continue.
ReceiverSleep(a) ==
    /\ rpc[a] = "sleep"
    /\ rpc' = [rpc EXCEPT ![a] = "check"]
    /\ UNCHANGED <<expired, cancelSent>>
    /\ UNCHANGED <<loopVars, consumerVars, sockVars, senderVars>>
    /\ UNCHANGED connVars

\* Mutant of ReceiverGrace: the success path returns nil without its send on
\* pingCancelled.
ReceiverGraceNoCancel(a) ==
    /\ rpc[a] = "grace"
    /\ rpc' = [rpc EXCEPT ![a] = "retNil"]
    /\ UNCHANGED <<expired, cancelSent>>
    /\ UNCHANGED <<loopVars, consumerVars, sockVars, senderVars>>
    /\ UNCHANGED connVars

\* Mutant of ReceiverGrace: after the wait the for loop goes on (a break out
\* of the select in place of the send and the return).
ReceiverGraceContinues(a) ==
    /\ rpc[a] = "grace"
    /\ rpc' = [rpc EXCEPT ![a] = "check"]
    /\ UNCHANGED <<expired, cancelSent>>
    /\ UNCHANGED <<loopVars, consumerVars, sockVars, senderVars>>
    /\ UNCHANGED connVars

\* case <-time.After(2 * pingInterval * time.Millisecond): the wait after the
\* datagram ends and the receiver moves to its send on pingCancelled.
ReceiverGrace(a) ==
    /\ rpc[a] = "grace"
    /\ rpc' = [rpc EXCEPT ![a] = "cancelNil"]
    /\ UNCHANGED <<expired, cancelSent>>
    /\ UNCHANGED <<loopVars, consumerVars, sockVars, senderVars>>
    /\ UNCHANGED connVars

\* What pingReceiver returns after its send on pingCancelled.
afterCancel(at) == IF at = "cancelNil" THEN "retNil" ELSE "retTimeout"

\* Mutant of Cancel: pingCancelled has a buffer, the send does not wait for
\* a sender to take it.
CancelBuffered(a, b) ==
    /\ rpc[a] \in {"cancelNil", "cancelTimeout"}
    /\ spc[b] = "select"
    /\ rpc' = [rpc EXCEPT ![a] = afterCancel(rpc[a])]
    /\ cancelSent' = [cancelSent EXCEPT ![a] = @ + 1]
    /\ UNCHANGED expired
    /\ UNCHANGED senderVars
    /\ UNCHANGED <<loopVars, consumerVars, sockVars>>
    /\ UNCHANGED connVars

\* p.pingCancelled <- struct{}{} in the receiver of attempt a meets
\* case <-p.pingCancelled in the sender of attempt b. The channel is one
\* unbuffered channel of the Pinger: any sender at its select may take it.
Cancel(a, b) ==
    /\ rpc[a] \in {"cancelNil", "cancelTimeout"}
    /\ spc[b] = "select"
    /\ rpc' = [rpc EXCEPT ![a] = afterCancel(rpc[a])]
    /\ cancelSent' = [cancelSent EXCEPT ![a] = @ + 1]
    /\ gotCancel' = [gotCancel EXCEPT ![b] = a]
    /\ UNCHANGED expired
    /\ senderExit(b, "cancelled")
    /\ UNCHANGED strayWrite
    /\ UNCHANGED <<loopVars, consumerVars, sockVars>>
    /\ UNCHANGED connVars

ReceiverStep(a) == ReceiverCheck(a) \/ ReceiverSleep(a) \/ ReceiverGrace(a)

----------------------------------------------------------------------------
(* PingProvider: the consumer-side entry.                                   *)

PingProvider(c) ==
    /\ cpc[c] = "idle"
    /\ cpc' = [cpc EXCEPT ![c] = "getConnection"]
    /\ UNCHANGED <<cret, loopVars, sockVars, senderVars, receiverVars>>
    /\ UNCHANGED connVars

\* conn, err := p.getConnection(ip, port, p.consumerPort); on error return it.
ConsumerGetConnection(c) ==
    /\ cpc[c] = "getConnection"
    /\ \E ok \in BOOLEAN :
          /\ getConnection(c, ok)
          /\ IF ok
             THEN /\ cpc' = [cpc EXCEPT ![c] = "goPing"]
                  /\ UNCHANGED cret
             ELSE /\ cpc' = [cpc EXCEPT ![c] = "returned"]
                  /\ cret' = [cret EXCEPT ![c] = "connError"]
    /\ UNCHANGED <<closes, handOffs, handOffType>>
    /\ UNCHANGED <<loopVars, senderVars, receiverVars>>
    /\ UNCHANGED connVars

ConsumerGoPing(c) ==
    /\ cpc[c] = "goPing"
    /\ goPing(c)
    /\ cpc' = [cpc EXCEPT ![c] = "sleep"]
    /\ UNCHANGED <<cret, loopVars, sockVars, receiverVars>>
    /\ UNCHANGED connVars

\* time.Sleep(pingInterval * time.Millisecond) ends.
ConsumerSleep(c) ==
    /\ cpc[c] = "sleep"
    /\ cpc' = [cpc EXCEPT ![c] = "pingReceiver"]
    /\ UNCHANGED <<cret, loopVars, sockVars, senderVars, receiverVars>>
    /\ UNCHANGED connVars

\* err = p.pingReceiver(conn): the call.
ConsumerPingReceiver(c) ==
    /\ cpc[c] = "pingReceiver"
    /\ enterReceiver(c)
    /\ UNCHANGED <<loopVars, consumerVars, sockVars, senderVars>>
    /\ UNCHANGED connVars

\* Mutant of deferredClose: the defer is missing.
deferredCloseMissing(c) == UNCHANGED sockVars

\* defer conn.Close(), run when PingProvider returns.
deferredClose(c) ==
    /\ sock' = [sock EXCEPT ![c] = "closed"]
    /\ closes' = [closes EXCEPT ![c] = @ + 1]
    /\ UNCHANGED <<opens, handOffs, handOffType>>

\* Mutant of ConsumerReceiverReturned: the error of pingReceiver is not
\* looked at.
ConsumerReceiverReturnedErrDropped(c) ==
    /\ cpc[c] = "pingReceiver"
    /\ rpc[c] \in {"retNil", "retTimeout"}
    /\ cpc' = [cpc EXCEPT ![c] = "grace"]
    /\ UNCHANGED <<cret, sockVars>>
    /\ UNCHANGED <<loopVars, senderVars, receiverVars>>
    /\ UNCHANGED connVars

\* The return of pingReceiver in PingProvider: an error is returned to the
\* caller; nil leads to the last sleep.
ConsumerReceiverReturned(c) ==
    /\ cpc[c] = "pingReceiver"
    /\ rpc[c] \in {"retNil", "retTimeout"}
    /\ IF rpc[c] = "retTimeout"
       THEN /\ cpc' = [cpc EXCEPT ![c] = "returned"]
            /\ cret' = [cret EXCEPT ![c] = "timeout"]
            /\ deferredClose(c)
       ELSE /\ cpc' = [cpc EXCEPT ![c] = "grace"]
            /\ UNCHANGED <<cret, sockVars>>
    /\ UNCHANGED <<loopVars, senderVars, receiverVars>>
    /\ UNCHANGED connVars

\* time.Sleep(200 * time.Millisecond); return nil
ConsumerReturnNil(c) ==
    /\ cpc[c] = "grace"
    /\ cpc' = [cpc EXCEPT ![c] = "returned"]
    /\ cret' = [cret EXCEPT ![c] = "nil"]
    /\ deferredClose(c)
    /\ UNCHANGED <<loopVars, senderVars, receiverVars>>
    /\ UNCHANGED connVars

ConsumerStep(c) ==
    \/ ConsumerGetConnection(c)
    \/ ConsumerGoPing(c)
    \/ ConsumerSleep(c)
    \/ ConsumerPingReceiver(c)
    \/ ConsumerReceiverReturned(c)
    \/ ConsumerReturnNil(c)

----------------------------------------------------------------------------
----------------------------------------------------------------------------
(* The wireguard Connection: Start, Wait and Stop.                          *)

\* c.stateChannel <- st: a send on a closed channel panics; the reader of
\* the channel takes every other send.
send(st) ==
    IF stateChannel = "closed"
    THEN /\ panicked' = "closedChannel"
         /\ UNCHANGED <<lastState, running>>
    ELSE /\ lastState' = st
         /\ running' = CASE st = "Connecting" -> TRUE
                         [] st = "NotConnected" -> FALSE
                         [] OTHER -> running
         /\ UNCHANGED panicked

\* c.connection.Done(): the wait group panics when its counter goes negative.
Done ==
    /\ connection' = connection - 1
    /\ panicked' = IF connection - 1 < 0 THEN "negativeCounter" ELSE panicked

\* Start is called: c.connectionEndpoint, err = endpoint.NewConnectionEndpoint(nil)
\* (with the error comes a nil endpoint).
ConnectionStart ==
    /\ panicked = "none" /\ kpc = "idle" /\ calls < MaxCalls
    /\ calls' = calls + 1
    /\ \E ok \in BOOLEAN :
          IF ok
          THEN /\ connectionEndpoint' = "set"
               /\ kpc' = "Add"
          ELSE /\ connectionEndpoint' = "nil"
               /\ kpc' = "idle"
    /\ UNCHANGED <<connection, stateChannel, lastState, wpc, running, waitEarly, panicked>>
    /\ UNCHANGED pingerVars

\* c.connection.Add(1)
StartAdd ==
    /\ panicked = "none" /\ kpc = "Add"
    /\ connection' = connection + 1
    /\ kpc' = "Connecting"
    /\ UNCHANGED <<stateChannel, lastState, connectionEndpoint, calls, wpc, running,
                   waitEarly, panicked>>
    /\ UNCHANGED pingerVars

\* c.stateChannel <- connection.Connecting
StartConnecting ==
    /\ panicked = "none" /\ kpc = "Connecting"
    /\ send("Connecting")
    /\ kpc' = "endpointStart"
    /\ UNCHANGED <<connection, stateChannel, connectionEndpoint, calls, wpc, waitEarly>>
    /\ UNCHANGED pingerVars

\* c.connectionEndpoint.Start(&c.config)
StartEndpoint ==
    /\ panicked = "none" /\ kpc = "endpointStart"
    /\ \E ok \in BOOLEAN : kpc' = IF ok THEN "AddPeer" ELSE "failed"
    /\ UNCHANGED <<connection, stateChannel, lastState, connectionEndpoint, calls, wpc,
                   running, waitEarly, panicked>>
    /\ UNCHANGED pingerVars

\* c.connectionEndpoint.AddPeer(...)
StartAddPeer ==
    /\ panicked = "none" /\ kpc = "AddPeer"
    /\ \E ok \in BOOLEAN : kpc' = IF ok THEN "Connected" ELSE "failed"
    /\ UNCHANGED <<connection, stateChannel, lastState, connectionEndpoint, calls, wpc,
                   running, waitEarly, panicked>>
    /\ UNCHANGED pingerVars

\* The error branches of Start: c.stateChannel <- connection.NotConnected
StartFailed ==
    /\ panicked = "none" /\ kpc = "failed"
    /\ send("NotConnected")
    /\ kpc' = "failedDone"
    /\ UNCHANGED <<connection, stateChannel, connectionEndpoint, calls, wpc, waitEarly>>
    /\ UNCHANGED pingerVars

\* ... c.connection.Done(); return err
StartFailedDone ==
    /\ panicked = "none" /\ kpc = "failedDone"
    /\ Done
    /\ kpc' = "idle"
    /\ UNCHANGED <<stateChannel, lastState, connectionEndpoint, calls, wpc, running, waitEarly>>
    /\ UNCHANGED pingerVars

\* c.stateChannel <- connection.Connected; return nil
StartConnected ==
    /\ panicked = "none" /\ kpc = "Connected"
    /\ send("Connected")
    /\ kpc' = "idle"
    /\ UNCHANGED <<connection, stateChannel, connectionEndpoint, calls, wpc, waitEarly>>
    /\ UNCHANGED pingerVars

\* Stop is called.
ConnectionStop ==
    /\ panicked = "none" /\ kpc = "idle" /\ calls < MaxCalls
    /\ calls' = calls + 1
    /\ kpc' = "Disconnecting"
    /\ UNCHANGED <<connection, stateChannel, lastState, connectionEndpoint, wpc, running,
                   waitEarly, panicked>>
    /\ UNCHANGED pingerVars

\* c.stateChannel <- connection.Disconnecting
StopDisconnecting ==
    /\ panicked = "none" /\ kpc = "Disconnecting"
    /\ send("Disconnecting")
    /\ kpc' = "endpointStop"
    /\ UNCHANGED <<connection, stateChannel, connectionEndpoint, calls, wpc, waitEarly>>
    /\ UNCHANGED pingerVars

\* c.connectionEndpoint.Stop(): its error is only logged; on a nil
\* connectionEndpoint the call is a nil dereference.
StopEndpoint ==
    /\ panicked = "none" /\ kpc = "endpointStop"
    /\ IF connectionEndpoint = "nil"
       THEN /\ panicked' = "nilEndpoint"
            /\ UNCHANGED kpc
       ELSE /\ kpc' = "NotConnected"
            /\ UNCHANGED panicked
    /\ UNCHANGED <<connection, stateChannel, lastState, connectionEndpoint, calls, wpc,
                   running, waitEarly>>
    /\ UNCHANGED pingerVars

\* c.stateChannel <- connection.NotConnected
StopNotConnected ==
    /\ panicked = "none" /\ kpc = "NotConnected"
    /\ send("NotConnected")
    /\ kpc' = "Done"
    /\ UNCHANGED <<connection, stateChannel, connectionEndpoint, calls, wpc, waitEarly>>
    /\ UNCHANGED pingerVars

\* c.connection.Done()
StopDone ==
    /\ panicked = "none" /\ kpc = "Done"
    /\ Done
    /\ kpc' = "close"
    /\ UNCHANGED <<stateChannel, lastState, connectionEndpoint, calls, wpc, running, waitEarly>>
    /\ UNCHANGED pingerVars

\* close(c.stateChannel)
StopClose ==
    /\ panicked = "none" /\ kpc = "close"
    /\ IF stateChannel = "closed"
       THEN /\ panicked' = "closeOfClosed"
            /\ UNCHANGED <<stateChannel, kpc>>
       ELSE /\ stateChannel' = "closed"
            /\ kpc' = "idle"
            /\ UNCHANGED panicked
    /\ UNCHANGED <<connection, lastState, connectionEndpoint, calls, wpc, running, waitEarly>>
    /\ UNCHANGED pingerVars

\* Wait is called.
ConnectionWait ==
    /\ panicked = "none" /\ wpc = "idle"
    /\ wpc' = "waiting"
    /\ UNCHANGED <<connection, stateChannel, lastState, connectionEndpoint, kpc, calls,
                   running, waitEarly, panicked>>
    /\ UNCHANGED pingerVars

\* c.connection.Wait() returns once the counter is zero.
WaitReturns ==
    /\ panicked = "none" /\ wpc = "waiting"
    /\ connection = 0
    /\ wpc' = "returned"
    /\ waitEarly' = running
    /\ UNCHANGED <<connection, stateChannel, lastState, connectionEndpoint, kpc, calls,
                   running, panicked>>
    /\ UNCHANGED pingerVars

----------------------------------------------------------------------------

\* The provider side: Start, the callers of PingTarget and the attempts of
\* the requests.
ProviderNext ==
    \/ LoopStep
    \/ \E r \in Requests : PingTarget(r)
    \/ \E r \in Requests : Dequeue(r)
    \/ \E a \in Requests : SenderStep(a)
    \/ \E a \in Requests : ReceiverStep(a)
    \/ \E a \in Requests : Timeout(a)
    \/ \E a \in Requests : ReadData(a)
    \/ \E a \in Requests : ReadError(a)
    \/ \E a, b \in Requests : Cancel(a, b)

\* The consumer side: the PingProvider calls and their attempts.
ConsumerNext ==
    \/ \E c \in Consumers : PingProvider(c)
    \/ \E c \in Consumers : ConsumerStep(c)
    \/ \E a \in Consumers : SenderStep(a)
    \/ \E a \in Consumers : ReceiverStep(a)
    \/ \E a \in Consumers : Timeout(a)
    \/ \E a \in Consumers : ReadData(a)
    \/ \E a \in Consumers : ReadError(a)
    \/ \E a, b \in Consumers : Cancel(a, b)

\* Both sides on one Pinger: a send on pingCancelled may also meet a sender
\* of the other side.
Next ==
    \/ ProviderNext
    \/ ConsumerNext
    \/ \E a \in Requests, b \in Consumers : Cancel(a, b) \/ Cancel(b, a)

Spec == Init /\ [][Next]_vars

\* A Pinger on which only Start and PingTarget are used.
ProviderSpec == Init /\ [][ProviderNext]_vars

\* A Pinger on which only PingProvider is used.
ConsumerSpec == Init /\ [][ConsumerNext]_vars

\* One Pinger used from both sides at once: the dispatch loop serving a
\* single PingTarget call while PingProvider calls run. Every send on
\* pingCancelled may meet any sender at its select, of either side.
OneRequest == {CHOOSE r \in Requests : TRUE}
BothAttempts == OneRequest \cup Consumers
BothNext ==
    \/ LoopStep
    \/ \E r \in OneRequest : PingTarget(r)
    \/ \E r \in OneRequest : Dequeue(r)
    \/ \E c \in Consumers : PingProvider(c)
    \/ \E c \in Consumers : ConsumerStep(c)
    \/ \E a \in BothAttempts : SenderStep(a)
    \/ \E a \in BothAttempts : ReceiverStep(a)
    \/ \E a \in BothAttempts : Timeout(a)
    \/ \E a \in BothAttempts : ReadData(a)
    \/ \E a \in BothAttempts : ReadError(a)
    \/ \E a, b \in BothAttempts : Cancel(a, b)

BothSpec == Init /\ [][BothNext]_vars

\* A Connection on which Start and Stop are called one after the other, in
\* any order, while one Wait call runs.
ConnNext ==
    \/ ConnectionStart \/ StartAdd \/ StartConnecting \/ StartEndpoint \/ StartAddPeer
    \/ StartFailed \/ StartFailedDone \/ StartConnected
    \/ ConnectionStop \/ StopDisconnecting \/ StopEndpoint \/ StopNotConnected
    \/ StopDone \/ StopClose
    \/ ConnectionWait \/ WaitReturns

ConnSpec == Init /\ [][ConnNext]_vars

\* What the Go scheduler and the timers guarantee: every goroutine that can
\* take a step takes one, every timer fires, and a send on pingCancelled that
\* a sender can take again and again is taken. Nothing is assumed of the
\* callers, of the peer's datagrams or of read errors.
ProviderFairness ==
    /\ WF_vars(LoopStep)
    /\ WF_vars(\E r \in Requests : Dequeue(r))
    /\ \A a \in Requests : WF_vars(SenderStep(a))
    /\ \A a \in Requests : WF_vars(ReceiverStep(a))
    /\ \A a \in Requests : WF_vars(Timeout(a))
    /\ \A a \in Requests : SF_vars(\E b \in Requests : Cancel(a, b))

ConsumerFairness ==
    /\ \A c \in Consumers : WF_vars(ConsumerStep(c))
    /\ \A a \in Consumers : WF_vars(SenderStep(a))
    /\ \A a \in Consumers : WF_vars(ReceiverStep(a))
    /\ \A a \in Consumers : WF_vars(Timeout(a))
    /\ \A a \in Consumers : SF_vars(\E b \in Consumers : Cancel(a, b))

FairProviderSpec == ProviderSpec /\ ProviderFairness

FairConsumerSpec == ConsumerSpec /\ ConsumerFairness

----------------------------------------------------------------------------
(* Properties.                                                              *)

\* The goroutine running ping for attempt a has been started and has not
\* returned.
Alive(a) == spc[a] \in {"select", "SetTTL", "Write"}

Returned(a) == rpc[a] \in {"retNil", "retTimeout"}
Resolved(r) == outcome[r] # "none"
\* A request that decoded without error, whose service type the proxy
\* reported available and whose remote port is not zero.
ValidRequest(r) ==
    /\ decoded[r].parsed /\ ~decoded[r].err /\ decoded[r].port # 0
    /\ avail[r] = "yes"

\* C1: for a valid request (decoded, proxy available, port nonzero) at most
\* one socket is opened, and once its receive race has returned and the
\* iteration is over exactly one socket was opened and exactly one of
\* handOff and Close has happened to it.
C1_HandOffOrClose ==
    \A r \in Requests :
        ValidRequest(r) =>
            /\ opens[r] <= 1
            /\ outcome[r] \in {"timeout", "handedOff"} =>
                  /\ opens[r] = 1
                  /\ handOffs[r] + closes[r] = 1

\* C2: once pingReceiver has been entered, then unless a datagram arrives,
\* Read reports an error or the sender has ended on an error of its own, the
\* call returns the timeout error and the sender of the same attempt has
\* received that one cancellation.
C2_TimeoutReturns ==
    \A a \in Requests :
        (rpc[a] = "check") ~>
            \/ gotData(a)
            \/ rpc[a] = "sleep"
            \/ spc[a] = "failed"
            \/ rpc[a] = "retTimeout" /\ cancelSent[a] = 1 /\ gotCancel[a] = a

\* C3: after the sender task of a request has ended on a SetTTL or Write
\* error, the dispatch loop returns to waiting on the work queue.
C3_LoopResumes ==
    \A r \in Requests : (spc[r] = "failed") ~> (lpc = "select")

\* C4: requests are processed one after the other: of two dequeued requests
\* one is resolved, a request that is not the one in progress shows no
\* unfinished step of processing, and at most one receive race is in progress.
C4_Serialized ==
    /\ \A r1, r2 \in Requests :
          (r1 # r2 /\ dequeued[r1] > 0 /\ dequeued[r2] > 0) =>
              (Resolved(r1) \/ Resolved(r2))
    /\ \A r \in Requests :
          (r # cur /\ ~Resolved(r)) =>
              /\ ~decoded[r].parsed /\ avail[r] = "unasked"
              /\ sock[r] = "none" /\ spc[r] = "none" /\ rpc[r] = "none"
    /\ \A r \in Requests :
          (r # cur) => (rpc[r] = "none" \/ Returned(r))
    /\ Cardinality({r \in Requests : rpc[r] # "none" /\ ~Returned(r)}) <= 1

\* C4 happens: the first request is resolved after its race and the second
\* is in its own race.
C4_Witness ==
    \E r1, r2 \in Requests :
        /\ r1 # r2
        /\ outcome[r1] \in {"timeout", "handedOff"}
        /\ cur = r2 /\ rpc[r2] = "Read"

\* C5: the k-th value a sender gives to SetTTL is k for k <= 4 and 128 from
\* the fifth on; the values never decrease and none exceeds 128.
C5_TTLSequence ==
    \A a \in Attempts :
        /\ \A k \in 1..Len(ttls[a]) : ttls[a][k] = IF k <= 4 THEN k ELSE 128
        /\ \A k \in 1..Len(ttls[a]) : ttls[a][k] <= lastTTL[a]
        /\ lastTTL[a] <= 128

\* C5 happens: a sender has made more calls of SetTTL than are remembered,
\* the last two remembered after the ramp.
C5_Witness ==
    \E a \in Attempts :
        /\ Len(ttls[a]) = MaxPings /\ MaxPings >= 6
        /\ spc[a] = "SetTTL" /\ n[a] = 129

\* C6: a pingReceiver that has returned has sent exactly one cancellation
\* signal, whether it returned nil or the timeout error, and one that has not
\* returned has sent none; never two.
C6_OneCancelPerReturn ==
    \A a \in Attempts :
        /\ cancelSent[a] <= 1
        /\ Returned(a) <=> cancelSent[a] = 1

\* C6 happens: one receive race has returned nil and another the timeout error.
C6_Witness ==
    \E a, b \in Attempts : rpc[a] = "retNil" /\ rpc[b] = "retTimeout"

\* C7: a socket is opened only for a request whose service type the proxy
\* reported available and whose decoded port is not zero; otherwise there is
\* no socket, no sender and no handOff for it.
C7_NoSocketWhenSkipped ==
    \A r \in Requests :
        /\ opens[r] > 0 => (avail[r] = "yes" /\ decoded[r].port # 0)
        /\ (avail[r] = "no" \/ (decoded[r].parsed /\ decoded[r].port = 0)) =>
              /\ opens[r] = 0 /\ sock[r] = "none"
              /\ spc[r] = "none" /\ rpc[r] = "none"
              /\ handOffs[r] = 0

\* C7 happens: one request was skipped because the proxy was unavailable
\* (its port nonzero) and another because its port was zero (proxy available).
C7_Witness ==
    \E r1, r2 \in Requests :
        /\ outcome[r1] = "unavailable" /\ decoded[r1].port # 0
        /\ outcome[r2] = "noPort" /\ avail[r2] = "yes"

\* C8: after the success event Start has returned: no request is dequeued
\* (no PingTarget call returns), no socket is opened, no sender is launched
\* and no handOff is invoked.
C8_SuccessEventNoOp ==
    (event = "success") =>
        /\ lpc = "returned"
        /\ cur = NoRequest
        /\ \A r \in Requests :
              /\ dequeued[r] = 0 /\ caller[r] # "returned"
              /\ opens[r] = 0 /\ spc[r] = "none" /\ handOffs[r] = 0

\* C8 happens: the success event was reported and every caller of PingTarget
\* is blocked at its send.
C8_Witness ==
    /\ event = "success"
    /\ \A r \in Requests : caller[r] = "sending"

\* C9: a PingTarget call has returned exactly when its request was dequeued,
\* which happens at most once; every dequeue starts one iteration of the
\* loop; of two callers that have returned, one's request is resolved.
C9_UnbufferedHandoff ==
    /\ \A r \in Requests :
          /\ dequeued[r] <= 1
          /\ caller[r] = "returned" <=> dequeued[r] = 1
    /\ Cardinality({r \in Requests : dequeued[r] > 0}) =
          Cardinality({r \in Requests : Resolved(r)}) + (IF cur = NoRequest THEN 0 ELSE 1)
    /\ \A r1, r2 \in Requests :
          (r1 # r2 /\ caller[r1] = "returned" /\ caller[r2] = "returned") =>
              (Resolved(r1) \/ Resolved(r2))

\* C9 happens: one caller has returned and its request is in its receive
\* race while a second caller is blocked at its send.
C9_Witness ==
    \E r1, r2 \in Requests :
        /\ caller[r1] = "returned" /\ cur = r1 /\ rpc[r1] = "Read"
        /\ caller[r2] = "sending"

\* C10: every PingProvider call returns, also when no datagram ever arrives
\* (stated for that case: the call returns unless a datagram is read).
C10_PingProviderReturns ==
    \A c \in Consumers :
        (cpc[c] = "getConnection") ~> (cpc[c] = "returned" \/ gotData(c))

\* C11: PingProvider returns nil only after its receive race has read a
\* datagram and returned nil; when the socket cannot be opened it returns
\* that error, and when the race returns the timeout error it returns it.
C11_NilOnlyAfterDatagram ==
    \A c \in Consumers :
        /\ cret[c] = "nil" => (rpc[c] = "retNil" /\ gotData(c))
        /\ (cpc[c] = "returned" /\ opens[c] = 0) => cret[c] = "connError"
        /\ (cpc[c] = "returned" /\ rpc[c] = "retTimeout") => cret[c] = "timeout"
        /\ cpc[c] = "returned" <=> cret[c] # "none"

\* C11 happens: a PingProvider call has returned the timeout error.
C11_Witness ==
    \E c \in Consumers : cpc[c] = "returned" /\ cret[c] = "timeout"

\* C12: a PingProvider call that has returned after opening a socket has
\* closed it exactly once, after a nil as after a timeout, and no handOff
\* was invoked for it; before the return the socket is not closed.
C12_ConsumerSocketClosed ==
    \A c \in Consumers :
        /\ (cpc[c] = "returned" /\ opens[c] > 0) =>
              (opens[c] = 1 /\ closes[c] = 1 /\ sock[c] = "closed")
        /\ cpc[c] # "returned" => closes[c] = 0
        /\ handOffs[c] = 0

\* C12 happens: a PingProvider call has returned nil, its socket closed.
C12_Witness ==
    \E c \in Consumers : cret[c] = "nil" /\ sock[c] = "closed"

C14_NoSuccessAfterDeadline ==
    \A a \in Requests : expired[a] => (rpc[a] # "retNil" /\ handOffs[a] = 0)

\* C16: a read error does not end the receive race: after it the receiver
\* sleeps and checks the deadline again, it returns the timeout error only
\* with the deadline passed and nil only from the wait after a datagram; and
\* if every Read fails, a receive race that was entered returns the timeout
\* error.
C16_ReadErrorsRetried ==
    /\ [][\A a \in Requests :
             /\ rpc[a] = "sleep" => rpc'[a] \in {"sleep", "check"}
             /\ (rpc'[a] = "retTimeout" /\ rpc[a] # "retTimeout") =>
                   (expired[a] /\ rpc[a] = "cancelTimeout")
             /\ (rpc'[a] = "retNil" /\ rpc[a] # "retNil") => rpc[a] = "cancelNil"
             /\ (rpc'[a] = "cancelNil" /\ rpc[a] # "cancelNil") => rpc[a] = "grace"]_vars
    /\ \A a \in Requests :
          ((rpc[a] = "Read") ~> (rpc[a] = "sleep")) =>
              ((rpc[a] = "check") ~> (rpc[a] = "retTimeout"))

\* C17 as claimed: a request that did not decode, with the proxy available
\* and a nonzero port, has after its iteration one socket opened, a sender
\* launched and a receive race run, with handOff after a nil.
C17_UndecodableGetsSession ==
    \A r \in Requests :
        (decoded[r].err /\ avail[r] = "yes" /\ decoded[r].port # 0 /\ Resolved(r)) =>
            /\ opens[r] = 1 /\ spc[r] # "none" /\ Returned(r)
            /\ rpc[r] = "retNil" => handOffs[r] = 1

\* C17 amended: a request that did not decode is not dropped: the loop goes
\* on to isAvailable with the returned values, and with the proxy available
\* and a nonzero port it calls getConnection; unless that fails, one socket
\* is opened, a sender launched and a receive race run, with handOff after nil.
C17_UndecodableNotDropped ==
    \A r \in Requests :
        decoded[r].err =>
            /\ avail[r] = "unasked" => (cur = r /\ lpc = "isAvailable")
            /\ (avail[r] = "yes" /\ decoded[r].port # 0 /\ Resolved(r)) =>
                  /\ outcome[r] \in {"connError", "timeout", "handedOff"}
                  /\ outcome[r] # "connError" =>
                        /\ opens[r] = 1 /\ spc[r] # "none" /\ Returned(r)
                        /\ rpc[r] = "retNil" => (handOffs[r] = 1 /\ outcome[r] = "handedOff")

\* C17 happens: a request that did not decode was handed off.
C17_Witness ==
    \E r \in Requests : decoded[r].err /\ outcome[r] = "handedOff" /\ handOffs[r] = 1

\* C19: with only the dispatch loop running, at most one sender is alive; a
\* sender is alive only while the loop is in pingReceiver of its attempt, so
\* none is alive when the loop waits on pingTarget.
C19_OneSenderAlive ==
    /\ Cardinality({a \in Requests : Alive(a)}) <= 1
    /\ \A a \in Requests :
          Alive(a) => (cur = a /\ lpc = "pingReceiver" /\ ~Returned(a))
    /\ lpc = "select" => \A a \in Requests : ~Alive(a)

\* C19 happens: the loop waits for the next request after an attempt whose
\* sender ran and was stopped.
C19_Witness ==
    /\ lpc = "select"
    /\ \E r \in Requests : outcome[r] \in {"timeout", "handedOff"} /\ spc[r] = "cancelled"

\* C15 as claimed, said of a handOff of the dispatch loop: when the loop has
\* proceeded to handOff of an attempt's socket, the sender of that attempt
\* has not yet observed the cancellation (and can still write).
C15_SenderAliveAtHandOff ==
    \A a \in Requests : (lpc = "handOff" /\ cur = a) => Alive(a)

\* C15 amended: with only the dispatch loop running there is no such
\* execution: when the loop proceeds to handOff, and ever after, the sender
\* of the attempt has taken the cancellation of its own receiver and
\* returned, and no write of it follows the handOff.
C15_SenderStoppedBeforeHandOff ==
    \A a \in Requests :
        /\ ((lpc = "handOff" /\ cur = a) \/ handOffs[a] > 0) =>
              (spc[a] = "cancelled" /\ gotCancel[a] = a /\ cancelSent[a] = 1)
        /\ ~strayWrite[a]

\* C15 happens: a socket was handed off after its sender had been stopped.
C15_Witness ==
    \E a \in Requests : handOffs[a] = 1 /\ spc[a] = "cancelled" /\ outcome[a] = "handedOff"

\* C18: with a PingProvider call and an attempt of the dispatch loop running
\* on one Pinger, a sender is stopped only by the signal of its own attempt's
\* receiver, and no sender is still running after its own attempt's receive
\* race has returned.
C18_OwnCancellationOnly ==
    \A a \in Attempts :
        /\ gotCancel[a] \in {0, a}
        /\ Returned(a) => ~Alive(a)

\* C20: for the Connection under any sequence of Start and Stop calls, Wait
\* does not return while the connection is running, the counter of the wait
\* group never goes negative, and no send on the state channel is made after
\* Stop has closed it.
C20_WaitGroupBalanced ==
    /\ ~waitEarly
    /\ connection >= 0 /\ panicked # "negativeCounter"
    /\ panicked # "closedChannel"

====
